---- MODULE Spec2Model ----
(***************************************************************************)
(* Settlement and messaging core of the marketplace client (src/App.tsx). *)
(*                                                                         *)
(* Three parts share one state:                                            *)
(*   - the purchase settlement of ProductDetails (handleBuy and            *)
(*     confirmPayment) against the record store and the payment gateway;   *)
(*   - the order conversation of ChatModal and the delivery transition;    *)
(*   - the direct conversation of DirectChatModal.                         *)
(* Every await of the source is a step boundary: the external call's       *)
(* effect and the code that runs when it resolves form one step, the       *)
(* steps of different users interleave freely.  The services of            *)
(* ./services/supabase and ./services/eyo are not part of the sources;     *)
(* their operators below follow the written specification.                 *)
(***************************************************************************)
EXTENDS Integers, Sequences, FiniteSets, TLC

\* ------------------------------------------------------------------ bounds
MaxIntents == 2
MaxOrders == 2
MaxMsgs == 2

\* ---------------------------------------------------------------- universe
Buyers == {"b1", "b2"}
Products == {"p1", "p2"}
\* The catalogue at the start: the stock the sellers listed.
Stock == [[p \in Products |-> 1] EXCEPT !["p1"] = 2]
Price == [p \in Products |-> IF p = "p1" THEN 50 ELSE 30]
SellerOf == [p \in Products |-> IF p = "p1" THEN "s1" ELSE "s2"]
PixKeyOf == [p \in Products |-> IF p = "p1" THEN "key1" ELSE "key2"]

VARIABLES
    quantity,   \* record store: products.quantity, per product id
    orders,     \* record store: the orders table, in creation order
    created,    \* history: per order, the intent and local copy it was created from
                \* and whether its run has issued the stock update since
    payouts,    \* gateway: the withdrawals issued, in order
    intents,    \* gateway: the payment intents (status, amount), in creation order
    view,       \* per buyer: the state of the ProductDetails component
    run,        \* per buyer: the handler invocation in flight
    messages,   \* record store: the messages table (order messages), oldest first
    dms,        \* record store: the direct_messages table, oldest first
    msgCount,   \* the number of messages composed so far: ids and contents are drawn from it
    chat,       \* per user: the state of the ChatModal component
    direct,     \* per user: the state of the DirectChatModal component
    channels,   \* realtime client: the live channels, each with its undelivered events
    loads,      \* the snapshot reads (getMessages) in flight
    hist        \* history: the orders purged and those written to since; the order
                \* handles opened after the purge, those whose order was written to
                \* since the purge, those whose snapshot arrived; the messages sent
                \* through the open direct handles; the order handles in which
                \* the delivery prompt was declined; the order handles whose
                \* handleMarkDelivered ended in an exception

vars == <<quantity, orders, created, payouts, intents, view, run,
          messages, dms, msgCount, chat, direct, channels, loads, hist>>

\* The state of the settlement without the orders, and the state of the conversations
settleVars == <<quantity, created, payouts, intents, view, run>>
chatVars == <<messages, dms, msgCount, chat, direct, channels, loads, hist>>

\* ------------------------------------------------------------ ProductDetails
NoProduct == [id |-> "none", quantity |-> 0]

\* useState initial values of ProductDetails
InitView ==
    [mounted |-> FALSE, product |-> NoProduct, paymentData |-> 0,
     showPayment |-> FALSE, verifying |-> FALSE]

\* No handler of the buyer is running.  (stored is history: the stored
\* quantity of the product when the invocation started; order is the row
\* orders.create returned.)
IdleRun ==
    [pc |-> "idle", product |-> NoProduct, intent |-> 0, status |-> "none",
     effects |-> {}, alert |-> "none", stored |-> 0, order |-> 0]

\* The users who chat: a buyer, the seller of p1, and a third user.
ChatUsers == {"b1", "s1"}
DirectUsers == {"b1", "s1", "u3"}

\* useState initial values of ChatModal
InitChatView ==
    [open |-> FALSE, order |-> 0, messages |-> <<>>, isClosingOrder |-> FALSE]

\* useState initial values of DirectChatModal
InitDirectView == [open |-> FALSE, peer |-> "none", messages |-> <<>>]

\* No conversation is open, no message was ever written.
InitConversations ==
    /\ messages = <<>>
    /\ dms = <<>>
    /\ msgCount = 0
    /\ chat = [u \in ChatUsers |-> InitChatView]
    /\ direct = [u \in DirectUsers |-> InitDirectView]
    /\ channels = <<>>
    /\ loads = {}
    /\ hist = [purged |-> {}, late |-> {}, after |-> {}, wrote |-> {}, loaded |-> {},
               sent |-> {}, declined |-> {}, aborted |-> {}]

Init ==
    /\ quantity \in {Stock, [Stock EXCEPT !["p1"] = 1]}
    /\ orders = <<>>
    /\ created = <<>>
    /\ payouts = <<>>
    /\ intents = <<>>
    /\ view = [b \in Buyers |-> InitView]
    /\ run = [b \in Buyers |-> IdleRun]
    /\ InitConversations

\* products.getAll() followed by find(p => p.id === id): the stored row
StoredProduct(p) == [id |-> p, quantity |-> quantity[p]]

\* The page /product/:id is opened: the component mounts and its effect
\* loads the product.
OpenProduct(b, p) ==
    /\ ~view[b].mounted
    /\ run[b].pc = "idle"
    /\ view' = [view EXCEPT ![b] = [InitView EXCEPT !.mounted = TRUE,
                                                    !.product = StoredProduct(p)]]
    /\ UNCHANGED <<quantity, orders, created, payouts, intents, run>>
    /\ UNCHANGED chatVars

\* The route parameter id changes while the component stays mounted: the
\* effect on [id] reloads the product, every other piece of state is kept.
RouteChange(b, p) ==
    /\ view[b].mounted
    /\ run[b].pc # "alert"
    /\ view[b].product.id # p
    /\ view' = [view EXCEPT ![b].product = StoredProduct(p)]
    /\ UNCHANGED <<quantity, orders, created, payouts, intents, run>>
    /\ UNCHANGED chatVars

\* The buy button is rendered for a loaded product, enabled only in stock;
\* the payment modal covers it while open.  (Closing the payment modal by
\* hand is left out: a buyer has at most one payment per visit of the page.)
BuyEnabled(v) ==
    /\ v.mounted
    /\ v.product.id # "none"
    /\ ~(v.product.quantity < 1)
    /\ ~v.showPayment

\* eyoService.createPayment(amount, description): a new intent, pending
CreatePayment(amount) == Append(intents, [status |-> "PENDING", amount |-> amount])

\* handleBuy, the gateway accepting the request
HandleBuyOk(b) ==
    /\ BuyEnabled(view[b])
    /\ run[b].pc = "idle"
    /\ Len(intents) < MaxIntents
    /\ intents' = CreatePayment(Price[view[b].product.id])
    /\ view' = [view EXCEPT ![b].paymentData = Len(intents) + 1,
                            ![b].showPayment = TRUE]
    /\ UNCHANGED <<quantity, orders, created, payouts, run>>
    /\ UNCHANGED chatVars

\* Variant: the payment view is opened although the request failed.
HandleBuyFail_OpensPayment(b) ==
    /\ BuyEnabled(view[b])
    /\ run[b].pc = "idle"
    /\ run' = [run EXCEPT ![b] = [IdleRun EXCEPT !.pc = "alert", !.alert = "buyError"]]
    /\ view' = [view EXCEPT ![b].showPayment = TRUE]
    /\ UNCHANGED <<quantity, orders, created, payouts, intents>>
    /\ UNCHANGED chatVars

\* handleBuy, the gateway rejecting the request or the call throwing: the
\* error alert is shown
HandleBuyFail(b) ==
    /\ BuyEnabled(view[b])
    /\ run[b].pc = "idle"
    /\ run' = [run EXCEPT ![b] = [IdleRun EXCEPT !.pc = "alert", !.alert = "buyError"]]
    /\ UNCHANGED <<quantity, orders, created, payouts, intents, view>>
    /\ UNCHANGED chatVars

\* The payer pays: the gateway moves the intent forward.
GatewayAdvance(i) ==
    /\ i \in DOMAIN intents
    /\ \E s \in {"ACTIVE", "COMPLETED"} :
        /\ \/ intents[i].status = "PENDING"
           \/ intents[i].status = "ACTIVE" /\ s = "COMPLETED"
        /\ intents' = [intents EXCEPT ![i].status = s]
    /\ UNCHANGED <<quantity, orders, created, payouts, view, run>>
    /\ UNCHANGED chatVars

\* -------------------------------------------------------------- confirmPayment
\* Invocations in flight that may still create an order.
InFlight == {b \in Buyers : run[b].pc = "create"}

\* Variant: only COMPLETED counts as paid.
IsSuccessStatus_OnlyCompleted(statusRes) ==
    statusRes.success /\ statusRes.status = "COMPLETED"

\* Variant: a pending intent counts as paid too.
IsSuccessStatus_AlsoPending(statusRes) ==
    statusRes.success /\ statusRes.status \in {"COMPLETED", "ACTIVE", "PENDING"}

\* The condition of line 697 on the status response
IsSuccessStatus(statusRes) ==
    statusRes.success /\ statusRes.status \in {"COMPLETED", "ACTIVE"}

\* An alert is shown: the handler is suspended until it is dismissed.
Alert(b, kind) == run' = [run EXCEPT ![b].pc = "alert", ![b].alert = kind]

\* eyoService.getPaymentStatus answers
GetPaymentStatus(i) ==
    {[success |-> TRUE, status |-> intents[i].status],
     [success |-> FALSE, status |-> "none"]}

\* The verify button can be clicked: the modal is shown, the button is not
\* loading, and the guard of confirmPayment passes.
CanConfirm(b) ==
    /\ view[b].mounted
    /\ view[b].showPayment
    /\ ~view[b].verifying
    /\ view[b].paymentData # 0
    /\ view[b].product.id # "none"
    /\ run[b].pc = "idle"
    /\ Len(orders) + Cardinality(InFlight) < MaxOrders

\* confirmPayment up to its first test: setVerifying(true), getPaymentStatus
\* and the success test.  The invocation works on the product and paymentData
\* of the render it was started in.
ConfirmPayment(b) ==
    /\ CanConfirm(b)
    /\ view' = [view EXCEPT ![b].verifying = TRUE]
    /\ \E statusRes \in GetPaymentStatus(view[b].paymentData) :
        run' = [run EXCEPT ![b] =
                  [IdleRun EXCEPT !.pc = IF IsSuccessStatus(statusRes) THEN "create"
                                         ELSE "alert",
                                  !.alert = IF IsSuccessStatus(statusRes) THEN "none"
                                            ELSE "notConfirmed",
                                  !.product = view[b].product,
                                  !.intent = view[b].paymentData,
                                  !.status = statusRes.status,
                                  !.stored = quantity[view[b].product.id]]]
    /\ UNCHANGED <<quantity, orders, created, payouts, intents>>
    /\ UNCHANGED chatVars

\* confirmPayment, getPaymentStatus throwing: caught
ConfirmPaymentThrow(b) ==
    /\ CanConfirm(b)
    /\ view' = [view EXCEPT ![b].verifying = TRUE]
    /\ run' = [run EXCEPT ![b] = [IdleRun EXCEPT !.pc = "alert", !.alert = "error",
                                                 !.product = view[b].product,
                                                 !.intent = view[b].paymentData]]
    /\ UNCHANGED <<quantity, orders, created, payouts, intents>>
    /\ UNCHANGED chatVars

\* The order confirmPayment asks the store to create
NewOrder(b) ==
    [id |-> Len(orders) + 1, buyerId |-> b, sellerId |-> SellerOf[run[b].product.id],
     productId |-> run[b].product.id, price |-> Price[run[b].product.id],
     status |-> "paid"]

\* orders.create: the row is inserted
CreateOrder(order) == Append(orders, order)

\* Variant: the run goes from the creation straight to the payout.
CreateOrderOk_SkipsStock(b) ==
    /\ run[b].pc = "create"
    /\ orders' = Append(orders, [id |-> Len(orders) + 1, buyerId |-> b,
                                 sellerId |-> SellerOf[run[b].product.id],
                                 productId |-> run[b].product.id,
                                 price |-> Price[run[b].product.id], status |-> "paid"])
    /\ created' = Append(created, [intent |-> run[b].intent,
                                   seenQuantity |-> run[b].product.quantity,
                                   stockCalled |-> FALSE])
    /\ run' = [run EXCEPT ![b].pc = "payout", ![b].effects = @ \cup {"order"},
                          ![b].order = Len(orders) + 1]
    /\ UNCHANGED <<quantity, payouts, intents, view>>
    /\ UNCHANGED <<messages, dms, msgCount, chat, direct, channels, loads, hist>>

\* orders.create succeeds and returns the row: no throw at line 708
CreateOrderOk(b) ==
    /\ run[b].pc = "create"
    /\ orders' = CreateOrder(NewOrder(b))
    /\ created' = Append(created, [intent |-> run[b].intent,
                                   seenQuantity |-> run[b].product.quantity,
                                   stockCalled |-> FALSE])
    /\ run' = [run EXCEPT ![b].pc = "stock", ![b].effects = @ \cup {"order"},
                          ![b].order = Len(orders) + 1]
    /\ UNCHANGED <<quantity, payouts, intents, view>>
    /\ UNCHANGED chatVars

\* Variant: the failed creation is not thrown, the run goes on.
CreateOrderFail_Continues(b) ==
    /\ run[b].pc = "create"
    /\ run' = [run EXCEPT ![b].pc = "stock"]
    /\ UNCHANGED <<quantity, orders, created, payouts, intents, view>>
    /\ UNCHANGED <<messages, dms, msgCount, chat, direct, channels, loads, hist>>

\* orders.create returns an error or no row: throw, caught
CreateOrderFail(b) ==
    /\ run[b].pc = "create"
    /\ Alert(b, "error")
    /\ UNCHANGED <<quantity, orders, created, payouts, intents, view>>
    /\ UNCHANGED chatVars

\* History: the run of buyer b has issued the stock update for its order.
StockCalled(b) == [created EXCEPT ![run[b].order].stockCalled = TRUE]

\* The quantity confirmPayment passes to updateStock
NewStock(product) == product.quantity - 1

\* products.updateStock(id, quantity): a point write of the given quantity
UpdateStock(p, q) == [quantity EXCEPT ![p] = q]

\* updateStock succeeds
UpdateStockOk(b) ==
    /\ run[b].pc = "stock"
    /\ quantity' = UpdateStock(run[b].product.id, NewStock(run[b].product))
    /\ run' = [run EXCEPT ![b].pc = "payout", ![b].effects = @ \cup {"stock"}]
    /\ created' = StockCalled(b)
    /\ UNCHANGED <<orders, payouts, intents, view>>
    /\ UNCHANGED chatVars

\* updateStock returns an error result: the result is not looked at
UpdateStockError(b) ==
    /\ run[b].pc = "stock"
    /\ run' = [run EXCEPT ![b].pc = "payout"]
    /\ created' = StockCalled(b)
    /\ UNCHANGED <<quantity, orders, payouts, intents, view>>
    /\ UNCHANGED chatVars

\* updateStock throws: caught
UpdateStockThrow(b) ==
    /\ run[b].pc = "stock"
    /\ Alert(b, "error")
    /\ created' = StockCalled(b)
    /\ UNCHANGED <<quantity, orders, payouts, intents, view>>
    /\ UNCHANGED chatVars

\* eyoService.createWithdraw pays the seller
CreateWithdraw(amount, pixKey) == Append(payouts, [amount |-> amount, pixKey |-> pixKey])

\* Variant: the payout takes the price of the product on the page now,
\* not of the product the run was started with.
PayoutOk_UsesViewProduct(b) ==
    /\ run[b].pc = "payout"
    /\ payouts' = Append(payouts, [amount |-> Price[view[b].product.id],
                                    pixKey |-> PixKeyOf[view[b].product.id]])
    /\ run' = [run EXCEPT ![b].pc = "alert", ![b].alert = "confirmed",
                          ![b].effects = @ \cup {"payout"}]
    /\ UNCHANGED <<quantity, orders, created, intents, view>>
    /\ UNCHANGED <<messages, dms, msgCount, chat, direct, channels, loads, hist>>

\* createWithdraw succeeds: the success alert
PayoutOk(b) ==
    /\ run[b].pc = "payout"
    /\ payouts' = CreateWithdraw(Price[run[b].product.id], PixKeyOf[run[b].product.id])
    /\ run' = [run EXCEPT ![b].pc = "alert", ![b].alert = "confirmed",
                          ![b].effects = @ \cup {"payout"}]
    /\ UNCHANGED <<quantity, orders, created, intents, view>>
    /\ UNCHANGED chatVars

\* createWithdraw returns an unsuccessful result: the result is not looked at
PayoutRejected(b) ==
    /\ run[b].pc = "payout"
    /\ Alert(b, "confirmed")
    /\ UNCHANGED <<quantity, orders, created, payouts, intents, view>>
    /\ UNCHANGED chatVars

\* createWithdraw throws: caught
PayoutThrow(b) ==
    /\ run[b].pc = "payout"
    /\ Alert(b, "error")
    /\ UNCHANGED <<quantity, orders, created, payouts, intents, view>>
    /\ UNCHANGED chatVars

\* Variant: after the "not confirmed" alert the status is looked up again and
\* a payment that succeeded meanwhile is settled.
Dismiss_Repolls(b) ==
    /\ run[b].pc = "alert"
    /\ IF run[b].alert = "notConfirmed"
            /\ intents[run[b].intent].status \in {"COMPLETED", "ACTIVE"}
       THEN /\ run' = [run EXCEPT ![b].pc = "create", ![b].alert = "none",
                                  ![b].status = intents[run[b].intent].status]
            /\ view' = view
       ELSE /\ run' = [run EXCEPT ![b] = IdleRun]
            /\ view' = [view EXCEPT ![b] = IF run[b].alert = "confirmed" THEN InitView
                                           ELSE [@ EXCEPT !.verifying = FALSE]]
    /\ UNCHANGED <<quantity, orders, created, payouts, intents>>
    /\ UNCHANGED <<messages, dms, msgCount, chat, direct, channels, loads, hist>>

\* The alert is dismissed and the handler runs to its end: navigate('/feed')
\* after the confirmation (the page unmounts), then finally setVerifying(false).
Dismiss(b) ==
    /\ run[b].pc = "alert"
    /\ run' = [run EXCEPT ![b] = IdleRun]
    /\ view' = [view EXCEPT ![b] = IF run[b].alert = "confirmed" THEN InitView
                                   ELSE [@ EXCEPT !.verifying = FALSE]]
    /\ UNCHANGED <<quantity, orders, created, payouts, intents>>
    /\ UNCHANGED chatVars

\* The settlement of one product among several buyers.
Next ==
    \/ \E b \in Buyers : OpenProduct(b, "p1")
    \/ \E b \in Buyers : HandleBuyOk(b)
    \/ \E b \in Buyers : HandleBuyFail(b)
    \/ \E i \in 1..MaxIntents : GatewayAdvance(i)
    \/ \E b \in Buyers : ConfirmPayment(b)
    \/ \E b \in Buyers : ConfirmPaymentThrow(b)
    \/ \E b \in Buyers : CreateOrderOk(b)
    \/ \E b \in Buyers : CreateOrderFail(b)
    \/ \E b \in Buyers : UpdateStockOk(b)
    \/ \E b \in Buyers : UpdateStockError(b)
    \/ \E b \in Buyers : UpdateStockThrow(b)
    \/ \E b \in Buyers : PayoutOk(b)
    \/ \E b \in Buyers : PayoutRejected(b)
    \/ \E b \in Buyers : PayoutThrow(b)
    \/ \E b \in Buyers : Dismiss(b)

Spec == Init /\ [][Next]_vars

\* The settlement of one buyer who moves between the product pages.
NextRoute ==
    \/ \E p \in Products : OpenProduct("b1", p)
    \/ \E p \in Products : RouteChange("b1", p)
    \/ HandleBuyOk("b1")
    \/ HandleBuyFail("b1")
    \/ \E i \in 1..MaxIntents : GatewayAdvance(i)
    \/ ConfirmPayment("b1")
    \/ ConfirmPaymentThrow("b1")
    \/ CreateOrderOk("b1")
    \/ CreateOrderFail("b1")
    \/ UpdateStockOk("b1")
    \/ UpdateStockError("b1")
    \/ UpdateStockThrow("b1")
    \/ PayoutOk("b1")
    \/ PayoutRejected("b1")
    \/ PayoutThrow("b1")
    \/ Dismiss("b1")

SpecRoute == Init /\ [][NextRoute]_vars

\* Nothing was sold yet.
InitStocked == Init /\ quantity = Stock

\* The settlement among several buyers, no store or gateway call failing
NextConserve ==
    \/ \E b \in Buyers : OpenProduct(b, "p1")
    \/ \E b \in Buyers : HandleBuyOk(b)
    \/ \E i \in 1..MaxIntents : GatewayAdvance(i)
    \/ \E b \in Buyers : ConfirmPayment(b)
    \/ \E b \in Buyers : CreateOrderOk(b)
    \/ \E b \in Buyers : UpdateStockOk(b)
    \/ \E b \in Buyers : PayoutOk(b)
    \/ \E b \in Buyers : Dismiss(b)

SpecConserve == InitStocked /\ [][NextConserve]_vars

\* ------------------------------------------------------------ record store feed
\* supabase.channel(...).on(...).subscribe(): a live channel, no event yet
Subscribe(ch, c) ==
    [x \in DOMAIN ch \cup {c} |-> IF x \in DOMAIN ch THEN ch[x] ELSE <<>>]

\* supabase.removeChannel(channel): the channel and its undelivered events go
RemoveChannel(ch, c) == [x \in DOMAIN ch \ {c} |-> ch[x]]

\* The filter of a subscription: order channels are filtered to their order
\* id on table messages, direct channels take every row of direct_messages.
Matches(c, e) ==
    IF e.table = "messages"
    THEN c.kind = "order" /\ c.key = e.row.orderId
    ELSE c.kind = "direct"

\* The change feed: the events of a write reach every matching live channel,
\* in order.
Publish(ch, evs) ==
    [c \in DOMAIN ch |-> ch[c] \o SelectSeq(evs, LAMBDA e : Matches(c, e))]

OrderChannel(u, o) == [kind |-> "order", view |-> u, key |-> o]
OrderLoad(u, o) == [kind |-> "order", view |-> u, key |-> o, read |-> FALSE, data |-> <<>>]

\* chat.getMessages(orderId): the order's rows, oldest first
GetMessages(o) == SelectSeq(messages, LAMBDA m : m.orderId = o)

\* The rows of an order are removed from the table.
PurgeRows(o) == SelectSeq(messages, LAMBDA m : m.orderId # o)

\* One event per row of seq rows
EventsOf(type, table, rows) ==
    [i \in 1..Len(rows) |-> [type |-> type, table |-> table, row |-> rows[i]]]

\* ------------------------------------------------------------------ ChatModal
\* The effect of ChatModal on [order.id]: the snapshot read is dispatched and
\* the channel subscribed.
ChatEffect(u, o) ==
    /\ loads' = loads \cup {OrderLoad(u, o)}
    /\ channels' = Subscribe(channels, OrderChannel(u, o))

\* The snapshot reads of a ChatModal that unmounted resolve into nothing.
DropLoads(u, kind) == {l \in loads : ~(l.kind = kind /\ l.view = u)}

\* A user opens the chat of an order: ChatModal mounts.
OpenChat(u, o) ==
    /\ ~chat[u].open
    /\ o \in DOMAIN orders
    /\ u \in {orders[o].buyerId, orders[o].sellerId}
    /\ chat' = [chat EXCEPT ![u] = [InitChatView EXCEPT !.open = TRUE, !.order = o]]
    /\ ChatEffect(u, o)
    /\ hist' = [hist EXCEPT !.after = IF o \in hist.purged THEN @ \cup {u} ELSE @ \ {u},
                            !.wrote = IF o \in hist.late THEN @ \cup {u} ELSE @ \ {u},
                            !.loaded = @ \ {u}]
    /\ UNCHANGED <<orders, messages, dms, msgCount, direct>>
    /\ UNCHANGED settleVars

\* The order prop of a mounted ChatModal changes: the cleanup of the effect
\* runs, then the effect again; the state of the component is kept.
SwitchOrder(u, o) ==
    /\ chat[u].open
    /\ ~chat[u].isClosingOrder
    /\ o \in DOMAIN orders
    /\ o # chat[u].order
    /\ u \in {orders[o].buyerId, orders[o].sellerId}
    /\ \A l \in loads : ~(l.kind = "order" /\ l.view = u /\ l.key = o)
    /\ chat' = [chat EXCEPT ![u].order = o]
    /\ loads' = loads \cup {OrderLoad(u, o)}
    /\ channels' = Subscribe(RemoveChannel(channels, OrderChannel(u, chat[u].order)),
                             OrderChannel(u, o))
    /\ hist' = [hist EXCEPT !.after = IF o \in hist.purged THEN @ \cup {u} ELSE @ \ {u},
                            !.wrote = IF o \in hist.late THEN @ \cup {u} ELSE @ \ {u},
                            !.loaded = @ \ {u}]
    /\ UNCHANGED <<orders, messages, dms, msgCount, direct>>
    /\ UNCHANGED settleVars

\* onClose: ChatModal unmounts and the cleanup of its effect runs.
Unmount(u) ==
    /\ chat' = [chat EXCEPT ![u] = InitChatView]
    /\ loads' = DropLoads(u, "order")

\* Variant: the cleanup does not remove the channel.
CloseChat_KeepsChannel(u) ==
    /\ chat[u].open
    /\ ~chat[u].isClosingOrder \/ u \in hist.aborted
    /\ Unmount(u)
    /\ hist' = [hist EXCEPT !.after = @ \ {u}, !.wrote = @ \ {u}, !.loaded = @ \ {u},
                            !.declined = @ \ {u}, !.aborted = @ \ {u}]
    /\ UNCHANGED <<orders, messages, dms, msgCount, direct, channels>>
    /\ UNCHANGED settleVars

\* The close button of ChatModal
CloseChat(u) ==
    /\ chat[u].open
    /\ ~chat[u].isClosingOrder \/ u \in hist.aborted
    /\ Unmount(u)
    /\ channels' = RemoveChannel(channels, OrderChannel(u, chat[u].order))
    /\ hist' = [hist EXCEPT !.after = @ \ {u}, !.wrote = @ \ {u}, !.loaded = @ \ {u},
                            !.declined = @ \ {u}, !.aborted = @ \ {u}]
    /\ UNCHANGED <<orders, messages, dms, msgCount, direct>>
    /\ UNCHANGED settleVars

\* The store serves a snapshot read.
SnapshotRead(l) ==
    /\ l \in loads
    /\ l.kind = "order"
    /\ ~l.read
    /\ loads' = (loads \ {l}) \cup {[l EXCEPT !.read = TRUE, !.data = GetMessages(l.key)]}
    /\ UNCHANGED <<orders, messages, dms, msgCount, chat, direct, channels, hist>>
    /\ UNCHANGED settleVars

\* The then-callback of the snapshot read: if (res.data) setMessages(res.data)
SnapshotResolve(l) ==
    /\ l \in loads
    /\ l.kind = "order"
    /\ l.read
    /\ loads' = loads \ {l}
    /\ chat' = [chat EXCEPT ![l.view].messages = l.data]
    /\ hist' = [hist EXCEPT !.loaded = IF l.key = chat[l.view].order
                                        THEN @ \cup {l.view} ELSE @]
    /\ UNCHANGED <<orders, messages, dms, msgCount, direct, channels>>
    /\ UNCHANGED settleVars

\* The snapshot read fails: res.data is null, nothing is set.
SnapshotFail(l) ==
    /\ l \in loads
    /\ l.kind = "order"
    /\ ~l.read
    /\ loads' = loads \ {l}
    /\ UNCHANGED <<orders, messages, dms, msgCount, chat, direct, channels, hist>>
    /\ UNCHANGED settleVars

\* chat.sendMessage: the row is inserted
NewMessage(u, o) ==
    [id |-> msgCount + 1, orderId |-> o, senderId |-> u, content |-> msgCount + 1]

\* handleSend of ChatModal, the write succeeding
ChatSend(u) ==
    /\ chat[u].open
    /\ msgCount < MaxMsgs
    /\ LET m == NewMessage(u, chat[u].order) IN
        /\ messages' = Append(messages, m)
        /\ channels' = Publish(channels, EventsOf("INSERT", "messages", <<m>>))
        /\ hist' = [hist EXCEPT !.late = IF m.orderId \in hist.purged
                                          THEN @ \cup {m.orderId} ELSE @,
                                !.wrote = @ \cup {v \in ChatUsers :
                                              chat[v].open /\ chat[v].order = m.orderId}]
    /\ msgCount' = msgCount + 1
    /\ UNCHANGED <<orders, dms, chat, direct, loads>>
    /\ UNCHANGED settleVars

\* Variant: a new message is put in front of the log.
OnOrderEvent_Prepends(log, e) ==
    IF e.type = "INSERT" THEN <<e.row>> \o log
    ELSE IF e.type = "DELETE" THEN SelectSeq(log, LAMBDA m : m.id # e.row.id)
    ELSE log

\* The postgres_changes callback of ChatModal (lines 112-125)
OnOrderEvent(log, e) ==
    IF e.type = "INSERT" THEN Append(log, e.row)
    ELSE IF e.type = "DELETE" THEN SelectSeq(log, LAMBDA m : m.id # e.row.id)
    ELSE log

\* The feed delivers the next event of an order channel to its callback.
DeliverOrderEvent(c) ==
    /\ c \in DOMAIN channels
    /\ c.kind = "order"
    /\ channels[c] # <<>>
    /\ channels' = [channels EXCEPT ![c] = Tail(@)]
    /\ chat' = [chat EXCEPT ![c.view].messages = OnOrderEvent(@, Head(channels[c]))]
    /\ UNCHANGED <<orders, messages, dms, msgCount, direct, loads, hist>>
    /\ UNCHANGED settleVars

\* --------------------------------------------------------- delivery transition
\* Variant: every participant counts as the seller.
isSeller_Anyone(u, o) == u \in {orders[o].buyerId, orders[o].sellerId}

isSeller(u, o) == u = orders[o].sellerId

\* orders.markDelivered, first effect: status = delivered is persisted
PersistDelivered(o) == [orders EXCEPT ![o].status = "delivered"]

\* Variant: the status is not persisted before the purge.
HandleMarkDelivered_NoPersist(u) ==
    /\ chat[u].open
    /\ ~chat[u].isClosingOrder
    /\ u = orders[chat[u].order].sellerId
    /\ chat' = [chat EXCEPT ![u].isClosingOrder = TRUE]
    /\ UNCHANGED <<orders, messages, dms, msgCount, direct, channels, loads, hist>>
    /\ UNCHANGED <<quantity, created, payouts, intents, view, run>>

\* handleMarkDelivered on the seller's button, the prompt accepted:
\* setIsClosingOrder(true), and markDelivered persists the status.
HandleMarkDelivered(u) ==
    /\ chat[u].open
    /\ ~chat[u].isClosingOrder
    /\ isSeller(u, chat[u].order)
    /\ orders' = PersistDelivered(chat[u].order)
    /\ chat' = [chat EXCEPT ![u].isClosingOrder = TRUE]
    /\ UNCHANGED <<messages, dms, msgCount, direct, channels, loads, hist>>
    /\ UNCHANGED settleVars

\* handleMarkDelivered on the seller's button, the prompt declined: return
HandleMarkDeliveredDeclined(u) ==
    /\ chat[u].open
    /\ ~chat[u].isClosingOrder
    /\ isSeller(u, chat[u].order)
    /\ hist' = [hist EXCEPT !.declined = @ \cup {u}]
    /\ UNCHANGED <<orders, messages, dms, msgCount, chat, direct, channels, loads>>
    /\ UNCHANGED settleVars

\* markDelivered, second effect: the order's messages are purged; the call
\* returns: setIsClosingOrder(false), onClose().
MarkDeliveredPurge(u) ==
    /\ chat[u].open
    /\ chat[u].isClosingOrder
    /\ u \notin hist.aborted
    /\ LET o == chat[u].order IN
        /\ messages' = PurgeRows(o)
        /\ channels' = RemoveChannel(
                          Publish(channels, EventsOf("DELETE", "messages", GetMessages(o))),
                          OrderChannel(u, o))
        /\ hist' = [hist EXCEPT !.purged = @ \cup {o}, !.late = @ \ {o},
                                !.after = @ \ {u}, !.wrote = @ \ {u},
                                !.loaded = @ \ {u}, !.declined = @ \ {u}]
    /\ Unmount(u)
    /\ UNCHANGED <<orders, dms, msgCount, direct>>
    /\ UNCHANGED settleVars

\* markDelivered, the purge failing with an error result: the call returns
MarkDeliveredPurgeFail(u) ==
    /\ chat[u].open
    /\ chat[u].isClosingOrder
    /\ u \notin hist.aborted
    /\ Unmount(u)
    /\ channels' = RemoveChannel(channels, OrderChannel(u, chat[u].order))
    /\ hist' = [hist EXCEPT !.after = @ \ {u}, !.wrote = @ \ {u}, !.loaded = @ \ {u},
                            !.declined = @ \ {u}]
    /\ UNCHANGED <<orders, messages, dms, msgCount, direct>>
    /\ UNCHANGED settleVars

\* markDelivered rejects (the purge call throws): handleMarkDelivered has no
\* try, so it ends there; setIsClosingOrder(false) and onClose() never run.
MarkDeliveredThrow(u) ==
    /\ chat[u].open
    /\ chat[u].isClosingOrder
    /\ u \notin hist.aborted
    /\ hist' = [hist EXCEPT !.aborted = @ \cup {u}]
    /\ UNCHANGED <<orders, messages, dms, msgCount, chat, direct, channels, loads>>
    /\ UNCHANGED settleVars

\* The state after two settlements of p1 by b1: two paid orders of seller s1
SettledOrder(n) ==
    [id |-> n, buyerId |-> "b1", sellerId |-> SellerOf["p1"], productId |-> "p1",
     price |-> Price["p1"], status |-> "paid"]

InitSettled ==
    /\ quantity = [Stock EXCEPT !["p1"] = 0]
    /\ orders = <<SettledOrder(1), SettledOrder(2)>>
    /\ created = <<[intent |-> 1, seenQuantity |-> 2, stockCalled |-> TRUE],
                   [intent |-> 2, seenQuantity |-> 1, stockCalled |-> TRUE]>>
    /\ payouts = <<[amount |-> Price["p1"], pixKey |-> PixKeyOf["p1"]],
                   [amount |-> Price["p1"], pixKey |-> PixKeyOf["p1"]]>>
    /\ intents = <<[status |-> "COMPLETED", amount |-> Price["p1"]],
                   [status |-> "COMPLETED", amount |-> Price["p1"]]>>
    /\ view = [b \in Buyers |-> InitView]
    /\ run = [b \in Buyers |-> IdleRun]
    /\ InitConversations

\* The state after one settlement of p1 by b1: one unit is left
InitOneSold ==
    /\ quantity = [Stock EXCEPT !["p1"] = 1]
    /\ orders = <<SettledOrder(1)>>
    /\ created = <<[intent |-> 1, seenQuantity |-> 2, stockCalled |-> TRUE]>>
    /\ payouts = <<[amount |-> Price["p1"], pixKey |-> PixKeyOf["p1"]]>>
    /\ intents = <<[status |-> "COMPLETED", amount |-> Price["p1"]]>>
    /\ view = [b \in Buyers |-> InitView]
    /\ run = [b \in Buyers |-> IdleRun]
    /\ InitConversations

\* The steps that follow an await or an alert of a ProductDetails handler
RunStep(b) ==
    \/ CreateOrderOk(b)
    \/ CreateOrderFail(b)
    \/ UpdateStockOk(b)
    \/ UpdateStockError(b)
    \/ UpdateStockThrow(b)
    \/ PayoutOk(b)
    \/ PayoutRejected(b)
    \/ PayoutThrow(b)
    \/ Dismiss(b)

\* The outcomes of the awaited markDelivered call
DeliveryStep(u) ==
    \/ MarkDeliveredPurge(u)
    \/ MarkDeliveredPurgeFail(u)
    \/ MarkDeliveredThrow(u)

\* b1 buying the second unit of p1 while s1 delivers the first order
NextBusy ==
    \/ OpenProduct("b1", "p1")
    \/ HandleBuyOk("b1")
    \/ HandleBuyFail("b1")
    \/ \E i \in 1..MaxIntents : GatewayAdvance(i)
    \/ ConfirmPayment("b1")
    \/ ConfirmPaymentThrow("b1")
    \/ RunStep("b1")
    \/ OpenChat("s1", 1)
    \/ CloseChat("s1")
    \/ \E l \in loads : SnapshotRead(l)
    \/ \E l \in loads : SnapshotResolve(l)
    \/ HandleMarkDelivered("s1")
    \/ DeliveryStep("s1")

\* Every awaited call settles and every alert is dismissed.
SpecBusy ==
    /\ InitOneSold
    /\ [][NextBusy]_vars
    /\ WF_vars(RunStep("b1"))
    /\ WF_vars(DeliveryStep("s1"))

\* The conversation of one order between its buyer and its seller
NextChat ==
    \/ \E u \in ChatUsers : OpenChat(u, 1)
    \/ \E u \in ChatUsers : CloseChat(u)
    \/ \E l \in loads : SnapshotRead(l)
    \/ \E l \in loads : SnapshotResolve(l)
    \/ \E l \in loads : SnapshotFail(l)
    \/ \E u \in ChatUsers : ChatSend(u)
    \/ \E c \in DOMAIN channels : DeliverOrderEvent(c)
    \/ \E u \in ChatUsers : HandleMarkDelivered(u)
    \/ \E u \in ChatUsers : MarkDeliveredPurge(u)
    \/ \E u \in ChatUsers : MarkDeliveredPurgeFail(u)

SpecChat == InitSettled /\ [][NextChat]_vars

\* The delivery of one order the buyer writes in, the seller answering the
\* prompt either way
NextDelivery ==
    \/ \E u \in ChatUsers : OpenChat(u, 1)
    \/ \E u \in ChatUsers : CloseChat(u)
    \/ \E l \in loads : SnapshotRead(l)
    \/ \E l \in loads : SnapshotResolve(l)
    \/ ChatSend("b1")
    \/ \E c \in DOMAIN channels : DeliverOrderEvent(c)
    \/ \E u \in ChatUsers : HandleMarkDelivered(u)
    \/ \E u \in ChatUsers : HandleMarkDeliveredDeclined(u)
    \/ \E u \in ChatUsers : MarkDeliveredPurge(u)

SpecDelivery == InitSettled /\ [][NextDelivery]_vars

\* The seller moving between the conversations of two orders
NextSwitch ==
    \/ \E o \in 1..MaxOrders : OpenChat("s1", o)
    \/ \E o \in 1..MaxOrders : SwitchOrder("s1", o)
    \/ CloseChat("s1")
    \/ \E l \in loads : SnapshotRead(l)
    \/ \E l \in loads : SnapshotResolve(l)
    \/ \E l \in loads : SnapshotFail(l)
    \/ ChatSend("s1")
    \/ \E c \in DOMAIN channels : DeliverOrderEvent(c)
    \/ HandleMarkDelivered("s1")
    \/ MarkDeliveredPurge("s1")
    \/ MarkDeliveredPurgeFail("s1")

SpecSwitch == InitSettled /\ [][NextSwitch]_vars

\* ------------------------------------------------------------ DirectChatModal
DirectChannel(u, p) == [kind |-> "direct", view |-> u, key |-> p]
DirectLoad(u, p) == [kind |-> "direct", view |-> u, key |-> p, read |-> FALSE, data |-> <<>>]

\* directChat.getMessages(userId, otherId): the rows of the pair, oldest first
GetDirectMessages(u, p) ==
    SelectSeq(dms, LAMBDA m : \/ m.senderId = u /\ m.receiverId = p
                              \/ m.senderId = p /\ m.receiverId = u)

\* A user opens a direct conversation with a peer: DirectChatModal mounts and
\* its effect dispatches the snapshot read and subscribes the channel.
OpenDirect(u, p) ==
    /\ ~direct[u].open
    /\ p # u
    /\ direct' = [direct EXCEPT ![u] = [InitDirectView EXCEPT !.open = TRUE, !.peer = p]]
    /\ loads' = loads \cup {DirectLoad(u, p)}
    /\ channels' = Subscribe(channels, DirectChannel(u, p))
    /\ UNCHANGED <<orders, messages, dms, msgCount, chat, hist>>
    /\ UNCHANGED settleVars

\* The buyer prop of a mounted DirectChatModal changes (another contact is
\* selected): cleanup, then the effect again; the state is kept.
SwitchPeer(u, p) ==
    /\ direct[u].open
    /\ p # u
    /\ p # direct[u].peer
    /\ \A l \in loads : ~(l.kind = "direct" /\ l.view = u /\ l.key = p)
    /\ direct' = [direct EXCEPT ![u].peer = p]
    /\ loads' = loads \cup {DirectLoad(u, p)}
    /\ channels' = Subscribe(RemoveChannel(channels, DirectChannel(u, direct[u].peer)),
                             DirectChannel(u, p))
    /\ hist' = [hist EXCEPT !.sent = {x \in @ : x.view # u}]
    /\ UNCHANGED <<orders, messages, dms, msgCount, chat>>
    /\ UNCHANGED settleVars

\* onClose: DirectChatModal unmounts and the cleanup of its effect runs.
CloseDirect(u) ==
    /\ direct[u].open
    /\ direct' = [direct EXCEPT ![u] = InitDirectView]
    /\ loads' = DropLoads(u, "direct")
    /\ channels' = RemoveChannel(channels, DirectChannel(u, direct[u].peer))
    /\ hist' = [hist EXCEPT !.sent = {x \in @ : x.view # u}]
    /\ UNCHANGED <<orders, messages, dms, msgCount, chat>>
    /\ UNCHANGED settleVars

\* The store serves a snapshot read of a direct conversation.
DirectSnapshotRead(l) ==
    /\ l \in loads
    /\ l.kind = "direct"
    /\ ~l.read
    /\ loads' = (loads \ {l})
                  \cup {[l EXCEPT !.read = TRUE, !.data = GetDirectMessages(l.view, l.key)]}
    /\ UNCHANGED <<orders, messages, dms, msgCount, chat, direct, channels, hist>>
    /\ UNCHANGED settleVars

\* The then-callback of the snapshot read: if (res.data) setMessages(res.data)
DirectSnapshotResolve(l) ==
    /\ l \in loads
    /\ l.kind = "direct"
    /\ l.read
    /\ loads' = loads \ {l}
    /\ direct' = [direct EXCEPT ![l.view].messages = l.data]
    /\ UNCHANGED <<orders, messages, dms, msgCount, chat, channels, hist>>
    /\ UNCHANGED settleVars

\* The optimistic copy of handleSend: a client-made id, no row of the store
OptimisticMsg(u, p) ==
    [id |-> 0 - (msgCount + 1), senderId |-> u, receiverId |-> p, content |-> msgCount + 1]

\* directChat.sendMessage: the row the store inserts
NewDirectMessage(u, p) ==
    [id |-> msgCount + 1, senderId |-> u, receiverId |-> p, content |-> msgCount + 1]

\* handleSend of DirectChatModal, the write succeeding: the optimistic copy
\* is appended, the row is inserted.
DirectSend(u) ==
    /\ direct[u].open
    /\ msgCount < MaxMsgs
    /\ direct' = [direct EXCEPT ![u].messages = Append(@, OptimisticMsg(u, direct[u].peer))]
    /\ dms' = Append(dms, NewDirectMessage(u, direct[u].peer))
    /\ channels' = Publish(channels, EventsOf("INSERT", "direct_messages",
                                              <<NewDirectMessage(u, direct[u].peer)>>))
    /\ msgCount' = msgCount + 1
    /\ hist' = [hist EXCEPT !.sent = @ \cup {[view |-> u, content |-> msgCount + 1]}]
    /\ UNCHANGED <<orders, messages, chat, loads>>
    /\ UNCHANGED settleVars

\* handleSend of DirectChatModal, the write failing: the error is logged
DirectSendFail(u) ==
    /\ direct[u].open
    /\ msgCount < MaxMsgs
    /\ direct' = [direct EXCEPT ![u].messages = Append(@, OptimisticMsg(u, direct[u].peer))]
    /\ msgCount' = msgCount + 1
    /\ UNCHANGED <<orders, messages, dms, chat, channels, loads, hist>>
    /\ UNCHANGED settleVars

\* The client-side filter of the callback (lines 243-245)
isRelevant(newMsg, u, p) ==
    \/ newMsg.senderId = u /\ newMsg.receiverId = p
    \/ newMsg.senderId = p /\ newMsg.receiverId = u

\* The postgres_changes callback of DirectChatModal (lines 239-258)
OnDirectEvent(log, e, u, p) ==
    IF e.type = "INSERT" /\ isRelevant(e.row, u, p) /\ e.row.senderId # u
    THEN Append(log, e.row)
    ELSE log

\* The feed delivers the next event of a direct channel to its callback.
DeliverDirectEvent(c) ==
    /\ c \in DOMAIN channels
    /\ c.kind = "direct"
    /\ channels[c] # <<>>
    /\ channels' = [channels EXCEPT ![c] = Tail(@)]
    /\ direct' = [direct EXCEPT ![c.view].messages =
                                   OnDirectEvent(@, Head(channels[c]), c.view, c.key)]
    /\ UNCHANGED <<orders, messages, dms, msgCount, chat, loads, hist>>
    /\ UNCHANGED settleVars

\* The direct conversation between b1 and s1, each on their own client
NextDirect ==
    \/ OpenDirect("b1", "s1")
    \/ OpenDirect("s1", "b1")
    \/ \E u \in {"b1", "s1"} : CloseDirect(u)
    \/ \E l \in loads : DirectSnapshotRead(l)
    \/ \E l \in loads : DirectSnapshotResolve(l)
    \/ \E u \in {"b1", "s1"} : DirectSend(u)
    \/ \E u \in {"b1", "s1"} : DirectSendFail(u)
    \/ \E c \in DOMAIN channels : DeliverDirectEvent(c)

SpecDirect == InitSettled /\ [][NextDirect]_vars

\* b1 moving between the direct conversations with two contacts
NextContacts ==
    \/ \E p \in DirectUsers : OpenDirect("b1", p)
    \/ \E p \in DirectUsers : SwitchPeer("b1", p)
    \/ CloseDirect("b1")
    \/ \E l \in loads : DirectSnapshotRead(l)
    \/ \E l \in loads : DirectSnapshotResolve(l)
    \/ DirectSend("b1")
    \/ DirectSendFail("b1")
    \/ \E c \in DOMAIN channels : DeliverDirectEvent(c)

SpecContacts == InitSettled /\ [][NextContacts]_vars

\* b1 moving between all of b1's conversations, one chat modal at a time
NextHandles ==
    \/ \E o \in 1..MaxOrders : ~direct["b1"].open /\ OpenChat("b1", o)
    \/ \E o \in 1..MaxOrders : SwitchOrder("b1", o)
    \/ CloseChat("b1")
    \/ \E l \in loads : SnapshotRead(l)
    \/ \E l \in loads : SnapshotResolve(l)
    \/ ChatSend("b1")
    \/ \E c \in DOMAIN channels : DeliverOrderEvent(c)
    \/ \E p \in DirectUsers : ~chat["b1"].open /\ OpenDirect("b1", p)
    \/ \E p \in DirectUsers : SwitchPeer("b1", p)
    \/ CloseDirect("b1")
    \/ \E l \in loads : DirectSnapshotRead(l)
    \/ \E l \in loads : DirectSnapshotResolve(l)
    \/ DirectSend("b1")
    \/ \E c \in DOMAIN channels : DeliverDirectEvent(c)

SpecHandles == InitSettled /\ [][NextHandles]_vars

\* b1 in the chat of an order or in the direct conversation with s1, and s1
\* in the direct conversation with b1
NextLogs ==
    \/ ~direct["b1"].open /\ OpenChat("b1", 1)
    \/ CloseChat("b1")
    \/ \E l \in loads : SnapshotRead(l)
    \/ \E l \in loads : SnapshotResolve(l)
    \/ ChatSend("b1")
    \/ \E c \in DOMAIN channels : DeliverOrderEvent(c)
    \/ ~chat["b1"].open /\ OpenDirect("b1", "s1")
    \/ OpenDirect("s1", "b1")
    \/ \E u \in {"b1", "s1"} : CloseDirect(u)
    \/ \E l \in loads : DirectSnapshotRead(l)
    \/ \E l \in loads : DirectSnapshotResolve(l)
    \/ \E u \in {"b1", "s1"} : DirectSend(u)
    \/ \E c \in DOMAIN channels : DeliverDirectEvent(c)

SpecLogs == InitSettled /\ [][NextLogs]_vars

\* ================================================================== claims
SuccessSet == {"COMPLETED", "ACTIVE"}

\* The orders of a product created from a local copy that showed quantity 1
LastUnitOrders(p) ==
    {i \in DOMAIN orders : orders[i].productId = p /\ created[i].seenQuantity = 1}

\* C1: when two different buyers confirm payment for a product they both
\* loaded at quantity 1, only one of them gets an Order and the stored
\* quantity does not go below 0.
C1_LastUnitSoldOnce ==
    \A p \in Products :
        /\ \A i, j \in LastUnitOrders(p) : orders[i].buyerId # orders[j].buyerId => i = j
        /\ LastUnitOrders(p) # {} => quantity[p] >= 0

\* C2: a confirmPayment that observes COMPLETED or ACTIVE goes on to create
\* the order, and unless the creation fails an Order with status paid for
\* that buyer, seller and product is in the store.
C2_SuccessStatusCreatesOrder ==
    [][\A b \in Buyers :
        /\ (run[b].pc = "idle" /\ run'[b].pc # "idle" /\ run'[b].status \in SuccessSet)
              => run'[b].pc = "create"
        /\ (run[b].pc = "create" /\ run'[b].pc # "create" /\ run'[b].alert # "error")
              => /\ run'[b].pc = "stock"
                 /\ Len(orders') = Len(orders) + 1
                 /\ LET o == orders'[Len(orders')] IN
                      /\ o.buyerId = b
                      /\ o.productId = run[b].product.id
                      /\ o.sellerId = SellerOf[run[b].product.id]
                      /\ o.status = "paid"
                 /\ SubSeq(orders', 1, Len(orders)) = orders]_vars

C2_Witness ==
    \E b \in Buyers :
        /\ run[b].pc = "stock"
        /\ run[b].status = "ACTIVE"
        /\ \E i \in DOMAIN orders :
            /\ orders[i].buyerId = b
            /\ orders[i].status = "paid"
            /\ created[i].intent = run[b].intent

\* C3: a confirmPayment that observes a status outside the success set (or
\* no successful status response) ends there: it creates no Order, writes no
\* stock and issues no payout.
C3_NoEffectWithoutSuccess ==
    /\ [](\A b \in Buyers :
            run[b].pc \in {"create", "stock", "payout"} \/ run[b].effects # {}
                => run[b].status \in SuccessSet)
    /\ [][\A b \in Buyers :
            (run[b].pc = "idle" /\ run'[b].pc # "idle" /\ run'[b].status \notin SuccessSet)
                => /\ run'[b].pc = "alert"
                   /\ run'[b].effects = {}
                   /\ UNCHANGED <<orders, quantity, payouts>>]_vars

C3_Witness ==
    \E b \in Buyers :
        /\ run[b].pc = "alert"
        /\ run[b].alert = "notConfirmed"
        /\ run[b].status = "PENDING"
        /\ run[b].effects = {}

\* The intents an Order was already created for
SettledIntents == {created[i].intent : i \in DOMAIN created}

\* C4: a buyer's confirmation (of a payment not settled before) that starts
\* when the stored quantity of the product is 0 never creates an Order.
C4_NoOrderWhenSoldOut ==
    [][\A b \in Buyers :
        (/\ run[b].pc = "create"
         /\ run[b].stored = 0
         /\ run[b].intent \notin SettledIntents)
            => \/ Len(orders') = Len(orders)
               \/ orders'[Len(orders')].buyerId # b]_vars

\* C5: the stored quantity of every product is never negative.
C5_QuantityNonNegative == \A p \in Products : quantity[p] >= 0

\* C6: at most one Order is ever created for a payment intent.
C6_OneOrderPerIntent ==
    \A i, j \in DOMAIN created : created[i].intent = created[j].intent => i = j

\* The number of entries of a log that carry a content
Occurrences(log, content) == Cardinality({i \in DOMAIN log : log[i].content = content})

\* C7: a message sent through an open Direct Conversation handle is in that
\* handle's log exactly once, at every later state.
C7_LocalSendOnce ==
    \A x \in hist.sent :
        direct[x.view].open => Occurrences(direct[x.view].messages, x.content) = 1

\* C8: an Order Conversation handle opened after the order's delivery and
\* purge has an empty log once its snapshot is loaded, as long as no message
\* was inserted for the order since.
C8_EmptyAfterDelivery ==
    \A u \in ChatUsers :
        (/\ chat[u].open
         /\ u \in hist.after
         /\ u \in hist.loaded
         /\ u \notin hist.wrote)
            => chat[u].messages = <<>>

\* C9: the delivery of one DELETE event of an order to an open handle leaves
\* no message of that order in the handle's log.
C9_DeleteEmptiesLog ==
    [][\A c \in DOMAIN channels :
        (/\ c.kind = "order"
         /\ channels[c] # <<>>
         /\ Head(channels[c]).type = "DELETE"
         /\ c \in DOMAIN channels'
         /\ channels'[c] = Tail(channels[c]))
            => \A i \in DOMAIN chat'[c.view].messages :
                  chat'[c.view].messages[i].orderId # c.key]_vars

\* The channels of the handles that are open
OpenHandles ==
    {OrderChannel(u, chat[u].order) : u \in {v \in ChatUsers : chat[v].open}}
        \cup {DirectChannel(u, direct[u].peer) : u \in {v \in DirectUsers : direct[v].open}}

\* C10: the live subscriptions are exactly those of the open handles, also
\* after open/close cycles and key switches; a closed handle has no
\* subscription left, its log takes no event, and removing its channel once
\* more changes nothing.
C10_SubscriptionsMatchHandles ==
    /\ DOMAIN channels = OpenHandles
    /\ \A u \in ChatUsers : ~chat[u].open =>
          /\ chat[u].messages = <<>>
          /\ \A o \in DOMAIN orders :
                RemoveChannel(channels, OrderChannel(u, o)) = channels
    /\ \A u \in DirectUsers : ~direct[u].open =>
          /\ direct[u].messages = <<>>
          /\ \A p \in DirectUsers :
                RemoveChannel(channels, DirectChannel(u, p)) = channels

C10_Witness ==
    /\ ~chat["b1"].open
    /\ ~direct["b1"].open
    /\ messages # <<>>
    /\ dms # <<>>
    /\ channels = <<>>

\* The key and the log of the handle a snapshot read was dispatched for
KeyOf(l) == IF l.kind = "order" THEN chat[l.view].order ELSE direct[l.view].peer
LogOf(l) == IF l.kind = "order" THEN chat[l.view].messages ELSE direct[l.view].messages

\* C11: a snapshot read that resolves after its handle was switched to
\* another key is discarded: the step in which it resolves leaves the log of
\* the handle as it was.  (A handle that was closed has no log left to alter.)
C11_StaleSnapshotDiscarded ==
    [][\A l \in loads :
        (/\ l.read
         /\ l \notin loads'
         /\ KeyOf(l) # l.key
         /\ KeyOf(l)' = KeyOf(l))
            => LogOf(l)' = LogOf(l)]_vars

\* The orders whose run has issued the stock update
StockUpdates == {i \in DOMAIN created : created[i].stockCalled}

\* C12: a run issues the stock update only for an order it has created and
\* reaches the payout only after its stock update was issued; at every state
\* the number of payouts <= the number of stock updates <= the number of Orders.
C12_EffectsInOrder ==
    /\ Len(payouts) <= Cardinality(StockUpdates)
    /\ Cardinality(StockUpdates) <= Len(orders)
    /\ \A b \in Buyers :
        /\ run[b].pc \in {"stock", "payout"} => run[b].order \in DOMAIN orders
        /\ run[b].pc = "stock" => run[b].order \notin StockUpdates
        /\ run[b].pc = "payout" \/ "payout" \in run[b].effects
              => run[b].order \in StockUpdates

C12_Witness ==
    /\ Len(payouts) = 2
    /\ Cardinality(StockUpdates) = 2
    /\ Len(orders) = 2
    /\ \E i \in DOMAIN orders : orders[i].buyerId = "b2"

\* C13: when the Order creation fails the run aborts with the error alert:
\* it has issued no effect, orders, quantity and payouts are unchanged; and
\* when the alert is dismissed the buyer is back where the attempt started
\* (payment view open, same intent and product, not verifying, no run).
C13_CreateFailureAborts ==
    [][\A b \in Buyers :
        /\ (run[b].pc = "create" /\ run'[b].pc # "create" /\ Len(orders') = Len(orders))
              => /\ run'[b].pc = "alert"
                 /\ run'[b].alert = "error"
                 /\ run'[b].effects = {}
                 /\ run'[b].order = 0
                 /\ UNCHANGED <<orders, quantity, payouts>>
        /\ (/\ run[b].pc = "alert" /\ run[b].alert = "error"
            /\ run[b].status \in SuccessSet /\ run[b].order = 0
            /\ run'[b].pc # "alert")
              => /\ run'[b] = IdleRun
                 /\ view'[b] = [view[b] EXCEPT !.verifying = FALSE]
                 /\ view'[b].mounted /\ view'[b].showPayment
                 /\ view'[b].paymentData = run[b].intent
                 /\ view'[b].product = run[b].product
                 /\ UNCHANGED <<orders, quantity, payouts>>]_vars

\* One buyer's creation has failed (the error alert is shown) while another
\* buyer's run has created its order.
C13_Witness ==
    \E b \in Buyers :
        /\ run[b].pc = "alert" /\ run[b].alert = "error"
        /\ run[b].status \in SuccessSet /\ run[b].order = 0
        /\ \E c \in Buyers \ {b} : run[c].pc = "stock"

\* C14: a run ends in the success outcome (the confirmation alert) only when
\* its payout was issued: a payout that failed is never followed by the
\* success outcome.
C14_PayoutFailureNotDropped ==
    [][\A b \in Buyers :
        (run[b].pc = "payout" /\ run'[b].pc = "alert" /\ run'[b].alert = "confirmed")
            => /\ Len(payouts') = Len(payouts) + 1
               /\ "payout" \in run'[b].effects]_vars

\* C15: a run goes from the stock update on to the payout only when the
\* decrement was written: a stock update that failed is never followed by
\* the payout and the success outcome.
C15_StockFailureSurfaced ==
    [][\A b \in Buyers :
        (run[b].pc = "stock" /\ run'[b].pc # "stock")
            => \/ "stock" \in run'[b].effects
               \/ run'[b].pc = "alert" /\ run'[b].alert # "confirmed"]_vars

\* C16: a delivered order stays delivered, and the delivery transition is
\* never requested (handleMarkDelivered started) for an order that is
\* already delivered.
C16_DeliveredOnce ==
    [][\A o \in DOMAIN orders :
        orders[o].status = "delivered"
            => /\ orders'[o].status = "delivered"
               /\ \A u \in ChatUsers :
                    ~(/\ chat[u].open /\ chat[u].order = o
                      /\ ~chat[u].isClosingOrder
                      /\ chat'[u].isClosingOrder)]_vars

\* C17: the status of an order changes, and its messages are purged, only
\* in the run of handleMarkDelivered that the order's seller started by
\* accepting the prompt; a buyer's handle never runs it; declining the
\* prompt leaves the orders, the messages and the handles as they were.
C17_SellerConfirmsDelivery ==
    [][/\ \A u \in ChatUsers :
            chat'[u].isClosingOrder => chat'[u].order \in DOMAIN orders
                                       /\ u = orders[chat'[u].order].sellerId
       /\ \A o \in DOMAIN orders :
            /\ orders'[o].status # orders[o].status
                  => \E u \in ChatUsers :
                        /\ chat[u].open /\ chat[u].order = o /\ u = orders[o].sellerId
                        /\ ~chat[u].isClosingOrder /\ chat'[u].isClosingOrder
            /\ Len(SelectSeq(messages', LAMBDA m : m.orderId = o))
                    < Len(SelectSeq(messages, LAMBDA m : m.orderId = o))
                  => \E u \in ChatUsers :
                        /\ chat[u].order = o /\ u = orders[o].sellerId
                        /\ chat[u].isClosingOrder
       /\ hist'.declined \ hist.declined # {}
            => UNCHANGED <<orders, messages, chat, channels>>]_vars

\* The seller has declined the prompt: the order is still paid and its
\* messages are still stored.
C17_Witness ==
    /\ "s1" \in hist.declined
    /\ chat["s1"].order = 1
    /\ orders[1].status = "paid"
    /\ \E i \in DOMAIN messages : messages[i].orderId = 1
    /\ chat["b1"].open

\* The ids of the messages of a log
IdsOf(log) == {log[i].id : i \in DOMAIN log}

\* C18: in an Order Conversation the send appends nothing to any local log;
\* the delivery of the INSERT event appends the message once, at the end;
\* and a message is never in an open handle's log more than once.
C18_NoOptimisticEcho ==
    /\ [](\A u \in ChatUsers :
            \A i, j \in DOMAIN chat[u].messages :
                chat[u].messages[i].id = chat[u].messages[j].id => i = j)
    /\ [][\A u \in ChatUsers :
            /\ Len(messages') > Len(messages) => chat'[u].messages = chat[u].messages
            /\ \A c \in DOMAIN channels :
                (/\ c.kind = "order" /\ c.view = u
                 /\ channels[c] # <<>>
                 /\ Head(channels[c]).type = "INSERT"
                 /\ c \in DOMAIN channels'
                 /\ channels'[c] = Tail(channels[c]))
                    => chat'[u].messages = Append(chat[u].messages, Head(channels[c]).row)]_vars

Resolving(u, kind) ==
    {l \in loads : l.kind = kind /\ l.view = u /\ l.read /\ l \notin loads'}

\* The event the feed hands to the handle of a user in this step, if any
Delivered(u, kind) ==
    {Head(channels[c]) : c \in {d \in DOMAIN channels :
        /\ d.kind = kind /\ d.view = u
        /\ channels[d] # <<>>
        /\ d \in DOMAIN channels'
        /\ channels'[d] = Tail(channels[d])}}

\* A sequence in ascending order of the store's ids
Ascending(rows) == \A i, j \in DOMAIN rows : i < j => rows[i].id < rows[j].id

\* What one step may do to a log: leave it, put one message at its end,
\* replace it by a snapshot that resolves (in the store's order), take
\* messages out without moving the others, or drop it with the handle.
LogStep(old, new, u, kind, nowOpen) ==
    \/ new = old
    \/ Len(new) = Len(old) + 1 /\ SubSeq(new, 1, Len(old)) = old
    \/ \E l \in Resolving(u, kind) : new = l.data /\ Ascending(l.data)
    \/ \E e \in Delivered(u, kind) :
          e.type = "DELETE" /\ new = SelectSeq(old, LAMBDA m : m.id # e.row.id)
    \/ ~nowOpen /\ new = <<>>

C21_PollsOnce ==
    [][\A b \in Buyers :
        /\ (run[b].pc # "idle" /\ run'[b].pc # "idle")
              => /\ run'[b].status = run[b].status
                 /\ run'[b].intent = run[b].intent
        /\ (run[b].pc = "idle" /\ run'[b].alert = "notConfirmed")
              => /\ run'[b].pc = "alert"
                 /\ run'[b].status \in {intents[view[b].paymentData].status, "none"}
        /\ (run[b].pc = "alert" /\ run[b].alert = "notConfirmed" /\ run'[b] # run[b])
              => /\ run'[b] = IdleRun
                 /\ UNCHANGED <<orders, quantity, payouts>>
        /\ (run'[b].pc = "create" /\ run[b].pc # "create") => run[b].pc = "idle"]_vars

\* b1's invocation read PENDING and shows it, while the gateway has
\* completed the payment since.
C21_Witness ==
    /\ run["b1"].pc = "alert"
    /\ run["b1"].alert = "notConfirmed"
    /\ run["b1"].status = "PENDING"
    /\ intents[run["b1"].intent].status = "COMPLETED"
    /\ orders = <<>>

C23_OnlyPairMessages ==
    \A u \in DirectUsers :
        direct[u].open =>
            \A i \in DOMAIN direct[u].messages :
                {direct[u].messages[i].senderId, direct[u].messages[i].receiverId}
                    = {u, direct[u].peer}

\* C24: the payout a run issues is for the price recorded on the Order the
\* same run created, and the price recorded on an Order never changes.
C24_PayoutEqualsOrderPrice ==
    [][/\ \A b \in Buyers :
            (run[b].pc = "payout" /\ Len(payouts') = Len(payouts) + 1)
                => /\ orders[run[b].order].buyerId = b
                   /\ payouts'[Len(payouts')].amount = orders[run[b].order].price
                   /\ orders[run[b].order].price = Price[orders[run[b].order].productId]
       /\ \A i \in DOMAIN orders :
            i \in DOMAIN orders' /\ orders'[i].price = orders[i].price]_vars

\* b1's run paid out the price of its Order of p2 although the page had
\* moved on to p1 while the run was in flight.
C24_Witness ==
    /\ run["b1"].pc = "alert"
    /\ "payout" \in run["b1"].effects
    /\ orders[run["b1"].order].productId = "p2"
    /\ payouts[Len(payouts)].amount = orders[run["b1"].order].price
    /\ view["b1"].product.id = "p1"

\* An open order handle with nothing in flight: its snapshot has arrived and
\* its channel has no undelivered event
Settled(u) ==
    /\ chat[u].open
    /\ u \in hist.loaded
    /\ \A l \in loads : ~(l.kind = "order" /\ l.view = u)
    /\ channels[OrderChannel(u, chat[u].order)] = <<>>

\* C25: whatever the interleaving of the snapshot and the feed, once nothing
\* is in flight the log of an open Order Conversation handle holds every
\* stored message of the order exactly once.
C25_EveryMessageOnce ==
    \A u \in ChatUsers : Settled(u) => chat[u].messages = GetMessages(chat[u].order)

\* The Orders of a product whose run has issued its stock update
StockedOrders(p) == {i \in StockUpdates : orders[i].productId = p}

\* C26: when no call fails, for each product the stored quantity plus the
\* number of Orders created for it (those whose stock update was issued)
\* is the quantity it was listed with.
C26_StockConserved ==
    \A p \in Products : quantity[p] + Cardinality(StockedOrders(p)) = Stock[p]

\* C27: the log of a mounted chat view holds only messages of the key the
\* view is on now, also after the view was switched from another order or
\* another contact.
C27_LogOfCurrentKeyOnly ==
    /\ \A u \in ChatUsers :
          chat[u].open =>
              \A i \in DOMAIN chat[u].messages :
                  chat[u].messages[i].orderId = chat[u].order
    /\ \A u \in DirectUsers :
          direct[u].open =>
              \A i \in DOMAIN direct[u].messages :
                  direct[u].peer \in {direct[u].messages[i].senderId,
                                      direct[u].messages[i].receiverId}

\* C28: a busy flag that is set is released again: verifying after
\* handleBuy and confirmPayment, isClosingOrder after handleMarkDelivered,
\* whatever the outcome of the calls they await.
C28_BusyFlagsReleased ==
    /\ \A b \in Buyers : view[b].verifying ~> ~view[b].verifying
    /\ \A u \in ChatUsers : chat[u].isClosingOrder ~> ~chat[u].isClosingOrder

\* The rows of the store that a local copy stands for
PersistedAs(m) ==
    {j \in DOMAIN dms : /\ dms[j].senderId = m.senderId
                        /\ dms[j].receiverId = m.receiverId
                        /\ dms[j].content = m.content}

\* C29: in a Direct Conversation every local copy of a sent message that is
\* in the log (handleSend has completed) stands for a stored direct message.
C29_LocalCopyIsPersisted ==
    \A u \in DirectUsers :
        direct[u].open =>
            \A i \in DOMAIN direct[u].messages :
                direct[u].messages[i].id < 0 => PersistedAs(direct[u].messages[i]) # {}

\* C30: a step that opens an Order Conversation handle on an order, or
\* moves an open handle to it, does so only while the stored status of that
\* order is paid.
C30_OpensOnlyPaidOrders ==
    [][\A u \in ChatUsers :
        (/\ chat'[u].open
         /\ ~chat[u].open \/ chat'[u].order # chat[u].order)
            => orders[chat'[u].order].status = "paid"]_vars

====
